---------------------------- MODULE Spec2Model ----------------------------
(***************************************************************************)
(* Bulls-and-cows solver (src/solver.py): the number universe, the         *)
(* feedback scorer, the consistency filter, the entropy estimator, the     *)
(* probe selector and the Game object, with the driver test_all_numbers.   *)
(*                                                                         *)
(* Numbers are Python ints; str(number) is the sequence of its decimal     *)
(* digits.  A (bulls, cows) answer is a tuple.  The games are explored     *)
(* over Universe, a bounded sub-list of ALL_NUMBERS.                       *)
(***************************************************************************)
EXTENDS Integers, Sequences, FiniteSets, TLC

(***************************************************************************)
(* Bounds of the exploration.                                              *)
(***************************************************************************)
\* Universe takes every Stride-th entry of ALL_NUMBERS ...
Stride == 38
\* ... and has UniverseSize entries.
UniverseSize == 8
\* put_answer is explored while the history is shorter than this.
MaxHistory == 2
\* get_question is explored while the round counter is below this.
MaxStep == 3

(***************************************************************************)
(* Program constants.                                                      *)
(***************************************************************************)
NUM_DIGITS == 4
RANGE_START == 1000
RANGE_STOP == 10000
\* The exponent base of the sample size, 10 ** (step - 1).
SAMPLE_BASE == 10
\* The bulls value Game.get_step compares the last answer with.
PERFECT_BULLS == 4
\* current_min_entropy = 10 ** 9, written as its whole part.
INITIAL_MIN_ENTROPY == 1000000000
\* The secret and the question of the banner's example.
EXAMPLE_NUMBER == 1234
EXAMPLE_QUESTION == 1453
\* Python's None, as returned by a function that falls off its end.
None == 0

Range(s) == {s[k] : k \in 1..Len(s)}

Min(a, b) == IF a < b THEN a ELSE b

RECURSIVE Pow(_, _)
Pow(b, e) == IF e = 0 THEN 1 ELSE b * Pow(b, e - 1)

\* The element of a one-element set.  {e : v \in {x}} evaluates x once and
\* binds v to its value, as an assignment to a local variable does.
TheValue(S) == CHOOSE v \in S : TRUE

(***************************************************************************)
(* str(number): the decimal digits of a non-negative int, most significant *)
(* first, with no leading zero.                                            *)
(***************************************************************************)
RECURSIVE str(_)
str(number) ==
    IF number < 10 THEN <<number>>
    ELSE Append(str(number \div 10), number % 10)

\* is_allowed_number without the test that the digits are distinct.
IsAllowedLengthOnly(number) == Len(str(number)) = NUM_DIGITS

is_allowed_number(number) ==
    /\ Len(str(number)) = NUM_DIGITS
    /\ Cardinality(Range(str(number))) = NUM_DIGITS

\* range(1000, 10000)
NumberRange == [k \in 1..(RANGE_STOP - RANGE_START) |-> RANGE_START + k - 1]

ALL_NUMBERS == SelectSeq(NumberRange, is_allowed_number)

\* The bounded sub-list of ALL_NUMBERS the games are played over: it stands
\* for ALL_NUMBERS wherever the Game's code reads it.
Universe == [k \in 1..UniverseSize |-> ALL_NUMBERS[1 + (k - 1) * Stride]]

\* The list with every pair of bulls + cows <= NUM_DIGITS, (3, 1) included.
PotentialAnswersWithThreeOne ==
    << <<0, 1>>, <<0, 2>>, <<1, 1>>, <<1, 0>>, <<0, 0>>, <<0, 3>>, <<1, 2>>,
       <<2, 0>>, <<2, 1>>, <<3, 0>>, <<3, 1>>, <<0, 4>>, <<1, 3>>, <<2, 2>>,
       <<4, 0>> >>

POTENTIAL_ANSWERS ==
    << <<0, 1>>, <<0, 2>>, <<1, 1>>, <<1, 0>>, <<0, 0>>, <<0, 3>>, <<1, 2>>,
       <<2, 0>>, <<2, 1>>, <<3, 0>>, <<0, 4>>, <<1, 3>>, <<2, 2>>, <<4, 0>> >>

\* The double loop with the inner loop running over range(i, NUM_DIGITS).
RECURSIVE BullsCowsLoopFromI(_, _, _, _, _)
BullsCowsLoopFromI(number, question, k, bulls, cows) ==
    IF k = NUM_DIGITS * NUM_DIGITS THEN <<bulls, cows>>
    ELSE LET i == k \div NUM_DIGITS
             j == k % NUM_DIGITS
         IN  IF j >= i /\ number[i + 1] = question[j + 1]
             THEN IF i = j
                  THEN BullsCowsLoopFromI(number, question, k + 1, bulls + 1, cows)
                  ELSE BullsCowsLoopFromI(number, question, k + 1, bulls, cows + 1)
             ELSE BullsCowsLoopFromI(number, question, k + 1, bulls, cows)

\* The double loop with "cows += 1" run for every match, the else dropped.
RECURSIVE BullsCowsLoopNoElse(_, _, _, _, _)
BullsCowsLoopNoElse(number, question, k, bulls, cows) ==
    IF k = NUM_DIGITS * NUM_DIGITS THEN <<bulls, cows>>
    ELSE LET i == k \div NUM_DIGITS
             j == k % NUM_DIGITS
         IN  IF number[i + 1] = question[j + 1]
             THEN IF i = j
                  THEN BullsCowsLoopNoElse(number, question, k + 1, bulls + 1, cows + 1)
                  ELSE BullsCowsLoopNoElse(number, question, k + 1, bulls, cows + 1)
             ELSE BullsCowsLoopNoElse(number, question, k + 1, bulls, cows)

(***************************************************************************)
(* count_bulls_and_cows: the double loop over (i, j), i outermost, carried *)
(* as the pair index k = i * NUM_DIGITS + j of the next iteration.         *)
(***************************************************************************)
RECURSIVE BullsCowsLoop(_, _, _, _, _)
BullsCowsLoop(number, question, k, bulls, cows) ==
    IF k = NUM_DIGITS * NUM_DIGITS THEN <<bulls, cows>>
    ELSE LET i == k \div NUM_DIGITS
             j == k % NUM_DIGITS
         IN  IF number[i + 1] = question[j + 1]
             THEN IF i = j
                  THEN BullsCowsLoop(number, question, k + 1, bulls + 1, cows)
                  ELSE BullsCowsLoop(number, question, k + 1, bulls, cows + 1)
             ELSE BullsCowsLoop(number, question, k + 1, bulls, cows)

\* number = str(number); question = str(question); the loop
count_bulls_and_cows(number, question) ==
    TheValue({BullsCowsLoop(n, q, 0, 0, 0) :
                 n \in {str(number)}, q \in {str(question)}})

\* set(ALL_NUMBERS), over the bounded list.
UniverseSet == Range(Universe)

number_is_consistent_with_qa(number, question, answer) ==
    count_bulls_and_cows(number, question) = answer

\* The test of consistency made against history[-1] alone.
ConsistentWithLastEntry(number, hist) ==
    \/ hist = <<>>
    \/ number_is_consistent_with_qa(number, hist[Len(hist)][1],
                                    hist[Len(hist)][2])

\* all(number_is_consistent_with_qa(number, question, answer)
\*     for question, answer in history)
ConsistentWithHistory(number, hist) ==
    \A k \in 1..Len(hist) :
        number_is_consistent_with_qa(number, hist[k][1], hist[k][2])

\* allowed_numbers is a list (ALL_NUMBERS) or a set (the pool): either way
\* each of its elements is visited once, and the elements are distinct.
count_possible_numbers(hist, allowed_numbers) ==
    Cardinality({number \in allowed_numbers : ConsistentWithHistory(number, hist)})

RECURSIVE UniqueLoop(_, _)
UniqueLoop(hist, k) ==
    IF k > Len(Universe) THEN None
    ELSE IF ConsistentWithHistory(Universe[k], hist) THEN Universe[k]
    ELSE UniqueLoop(hist, k + 1)

\* get_unique_possible_number looping over ALL_NUMBERS[1:].
GetUniqueSkipsFirst(hist) == UniqueLoop(hist, 2)

get_unique_possible_number(hist) == UniqueLoop(hist, 1)


(***************************************************************************)
(* Entropy arithmetic.  The floats of question_entropy are fixed-point     *)
(* numbers <<whole, frac>> standing for whole + frac / FX_SCALE.  LN[c] is *)
(* FX_SCALE * ln(c), built from the rounded logarithms of the primes so    *)
(* that ln(a * b) = ln(a) + ln(b) holds exactly, as it does for reals.     *)
(***************************************************************************)
FX_SCALE == 10000

LN == << 0, 6931, 10986, 13862, 16094, 17917, 19459, 20793, 21972, 23025,
         23979, 24848, 25649, 26390, 27080, 27724, 28332, 28903, 29444,
         29956, 30445, 30910, 31355, 31779, 32188, 32580, 32958, 33321,
         33673, 34011, 34340, 34655 >>

FxZero == <<0, 0>>

FxAdd(x, scaled) ==
    LET frac == x[2] + scaled
    IN  <<x[1] + frac \div FX_SCALE, frac % FX_SCALE>>

FxGt(x, y) == x[1] > y[1] \/ (x[1] = y[1] /\ x[2] > y[2])

FxLt(x, y) == FxGt(y, x)

\* - log(1 / count) * count
XLogX(count) == LN[count] * count

\* The loop of question_entropy leaving as soon as the sum is below the
\* cell instead of above it.
RECURSIVE EntropyLoopExitsBelow(_, _, _, _, _)
EntropyLoopExitsBelow(question, allowed_numbers, cell, k, result) ==
    IF k > Len(POTENTIAL_ANSWERS) THEN <<result, result>>
    ELSE TheValue({
           IF count > 0
           THEN TheValue({
                  IF FxLt(sum, cell) THEN <<sum, cell>>
                  ELSE EntropyLoopExitsBelow(question, allowed_numbers, cell,
                                             k + 1, sum) :
                  sum \in {FxAdd(result, XLogX(count))}})
           ELSE EntropyLoopExitsBelow(question, allowed_numbers, cell,
                                      k + 1, result) :
           count \in {count_possible_numbers(
                          << <<question, POTENTIAL_ANSWERS[k]>> >>,
                          allowed_numbers)}})

\* The loop of question_entropy storing the sum in the cell on the early
\* exit too.
RECURSIVE EntropyLoopStoresOnExit(_, _, _, _, _)
EntropyLoopStoresOnExit(question, allowed_numbers, cell, k, result) ==
    IF k > Len(POTENTIAL_ANSWERS) THEN <<result, result>>
    ELSE TheValue({
           IF count > 0
           THEN TheValue({
                  IF FxGt(sum, cell) THEN <<sum, sum>>
                  ELSE EntropyLoopStoresOnExit(question, allowed_numbers, cell,
                                               k + 1, sum) :
                  sum \in {FxAdd(result, XLogX(count))}})
           ELSE EntropyLoopStoresOnExit(question, allowed_numbers, cell,
                                        k + 1, result) :
           count \in {count_possible_numbers(
                          << <<question, POTENTIAL_ANSWERS[k]>> >>,
                          allowed_numbers)}})

(***************************************************************************)
(* question_entropy(question), the closure of question_entropy_by_history  *)
(* over allowed_numbers and the cell current_min_entropy.  The loop over   *)
(* POTENTIAL_ANSWERS is carried by the index k of the next answer.  The    *)
(* value is <<result returned, current_min_entropy afterwards>>.           *)
(***************************************************************************)
RECURSIVE EntropyLoop(_, _, _, _, _)
EntropyLoop(question, allowed_numbers, cell, k, result) ==
    IF k > Len(POTENTIAL_ANSWERS) THEN <<result, result>>
    ELSE TheValue({
           IF count > 0
           THEN TheValue({
                  IF FxGt(sum, cell) THEN <<sum, cell>>
                  ELSE EntropyLoop(question, allowed_numbers, cell, k + 1, sum) :
                  sum \in {FxAdd(result, XLogX(count))}})
           ELSE EntropyLoop(question, allowed_numbers, cell, k + 1, result) :
           count \in {count_possible_numbers(
                          << <<question, POTENTIAL_ANSWERS[k]>> >>,
                          allowed_numbers)}})

question_entropy(question, allowed_numbers, cell) ==
    EntropyLoop(question, allowed_numbers, cell, 1, FxZero)

(***************************************************************************)
(* State.                                                                  *)
(*                                                                         *)
(* Game objects are named by ids; the fields of the Game g are history[g], *)
(* i[g], current_allowed_numbers[g] and last_question[g].  DOMAIN history  *)
(* is the set of constructed games and DOMAIN last_question the games that *)
(* have the attribute last_question (get_question sets it first).          *)
(***************************************************************************)
VARIABLES
    history,                  \* Game.history: sequence of <<question, answer>>
    i,                        \* Game.i
    current_allowed_numbers,  \* Game.current_allowed_numbers (a set)
    last_question,            \* Game.last_question, where it is set
    pc,                       \* "idle", or "min" inside get_best_question
    self,                     \* the game whose get_question is running
    unsampled,                \* pool elements shuffle has not yet placed
    to_draw,                  \* elements of sample[:10 ** (step - 1)] left
    current_min_entropy,      \* the cell of question_entropy_by_history
    min_item,                 \* min(): the best element so far, or None
    min_key,                  \* min(): its key
    call,                     \* the most recent call: <<method, game, ...>>
    error,                    \* its outcome: "ok" or the exception raised
    returned,                 \* per game: get_question calls that returned
    tpc,                      \* test_all_numbers: position
    for_iter,                 \* test_all_numbers: entries the for loop has taken
    number,                   \* test_all_numbers: the secret number
    worst_number_of_steps,    \* test_all_numbers
    args,                     \* arguments of the pure function applied
    ret,                      \* its result
    ppc,                      \* "call" before, "return" after it is applied
    ipc                       \* interactive_game: position

gameVars == <<history, i, current_allowed_numbers, last_question>>
passVars == <<pc, self, unsampled, to_draw, current_min_entropy, min_item, min_key>>
callVars == <<call, error, returned>>
testVars == <<tpc, for_iter, number, worst_number_of_steps>>
pureVars == <<args, ret, ppc>>
interVars == <<ipc>>
vars == <<gameVars, passVars, callVars, testVars, pureVars, interVars>>

Games == DOMAIN history

NoGame == 0

InitialCell == <<INITIAL_MIN_ENTROPY, 0>>

PassIdle ==
    /\ pc = "idle"
    /\ self = NoGame
    /\ unsampled = {}
    /\ to_draw = 0
    /\ current_min_entropy = InitialCell
    /\ min_item = None
    /\ min_key = FxZero

\* With f a function, f with g mapped to v (g added to the domain if new).
Put(f, g, v) == [h \in (DOMAIN f) \cup {g} |-> IF h = g THEN v ELSE f[h]]


(***************************************************************************)
(* The read-only methods of Game.                                          *)
(***************************************************************************)
\* is_finished with < 1 for <= 1.
IsFinishedBelowOne(g) == count_possible_numbers(history[g], UniverseSet) < 1

\* is_finished with == 1 for <= 1.
IsFinishedExactlyOne(g) == count_possible_numbers(history[g], UniverseSet) = 1

is_finished(g) == count_possible_numbers(history[g], UniverseSet) <= 1

\* is_correct with > 1 for > 0.
IsCorrectMoreThanOne(g) == count_possible_numbers(history[g], UniverseSet) > 1

is_correct(g) == count_possible_numbers(history[g], UniverseSet) > 0

guessed_number(g) == get_unique_possible_number(history[g])

\* history[-1][1][0] is the bulls of the most recent answer.
get_step(g) ==
    IF is_finished(g)
    THEN IF history[g][Len(history[g])][2][1] = PERFECT_BULLS
         THEN i[g]
         ELSE i[g] + 1
    ELSE i[g]

\* Game() with the pool kept in one set shared by the Game objects.
GameInitSharesPool(g) ==
    /\ history' = Put(history, g, <<>>)
    /\ i' = Put(i, g, 0)
    /\ current_allowed_numbers' =
           Put(current_allowed_numbers, g,
               IF \E h \in Games : h # g
               THEN current_allowed_numbers[CHOOSE h \in Games : h # g]
               ELSE UniverseSet)
    /\ last_question' = [h \in (DOMAIN last_question) \ {g} |-> last_question[h]]
    /\ returned' = Put(returned, g, 0)
    /\ call' = <<"Game", g>>
    /\ error' = "ok"
    /\ UNCHANGED passVars

(***************************************************************************)
(* Game(): a new object under the id g.  The attribute last_question does  *)
(* not exist yet.                                                          *)
(***************************************************************************)
Game__init__(g) ==
    /\ history' = Put(history, g, <<>>)
    /\ i' = Put(i, g, 0)
    /\ current_allowed_numbers' = Put(current_allowed_numbers, g, UniverseSet)
    /\ last_question' = [h \in (DOMAIN last_question) \ {g} |-> last_question[h]]
    /\ returned' = Put(returned, g, 0)
    /\ call' = <<"Game", g>>
    /\ error' = "ok"
    /\ UNCHANGED passVars

(***************************************************************************)
(* Game.get_question up to the call of min() in get_best_question: the     *)
(* assertion, the increment of i, the pruning of the pool against          *)
(* history[-1] when step > 1, and the size of the sample.                  *)
(***************************************************************************)
\* The assertion of get_question failing after "self.i += 1".
GetQuestionAssertAfterIncrement(g) ==
    /\ error' = "AssertionError"
    /\ i' = [i EXCEPT ![g] = @ + 1]
    /\ UNCHANGED <<history, current_allowed_numbers, last_question, passVars,
                   returned>>

\* The assertion of get_question has failed: nothing else has run.
GetQuestionAssertFails(g) ==
    /\ error' = "AssertionError"
    /\ UNCHANGED <<gameVars, passVars, returned>>

\* The pruning done against the oldest history entry instead of the newest.
PrunedPoolOldestEntry(g) ==
    LET first == history[g][1]
    IN  {n \in current_allowed_numbers[g] :
            number_is_consistent_with_qa(n, first[1], first[2])}

\* for number in list(pool): if not consistent(number, *history[-1]): remove
PrunedPool(g) ==
    LET last == history[g][Len(history[g])]
    IN  {n \in current_allowed_numbers[g] :
            number_is_consistent_with_qa(n, last[1], last[2])}

\* get_best_question pruning on the second step only.
PrunesOnSecondOnly(step) == step = 2

\* get_best_question pruning from the third step on only.
PrunesFromThird(step) == step > 2

\* get_best_question pruning on every step, the first included.
PrunesAlways(step) == step > 0

\* Whether get_best_question(step, ...) prunes the pool first.
Prunes(step) == step > 1

get_question(g) ==
    /\ pc = "idle"
    /\ g \in Games
    /\ call' = <<"get_question", g>>
    /\ IF is_finished(g)
       THEN GetQuestionAssertFails(g)
       ELSE LET step == i[g] + 1
                raisesIndexError == /\ Prunes(step)
                                    /\ current_allowed_numbers[g] # {}
                                    /\ history[g] = <<>>
                pool == IF Prunes(step) /\ ~raisesIndexError
                        THEN PrunedPool(g)
                        ELSE current_allowed_numbers[g]
            IN  /\ i' = [i EXCEPT ![g] = step]
                /\ UNCHANGED <<history, last_question, returned>>
                /\ current_allowed_numbers' =
                       [current_allowed_numbers EXCEPT ![g] = pool]
                /\ IF raisesIndexError \/ pool = {}
                   THEN \* history[-1] of an empty list, or min() of an
                        \* empty sample
                        /\ error' = IF raisesIndexError THEN "IndexError"
                                                        ELSE "ValueError"
                        /\ UNCHANGED passVars
                   ELSE /\ error' = "running"
                        /\ pc' = "min"
                        /\ self' = g
                        /\ unsampled' = pool
                        /\ to_draw' = Min(Cardinality(pool),
                                          Pow(SAMPLE_BASE, step - 1))
                        /\ current_min_entropy' = InitialCell
                        /\ min_item' = None
                        /\ min_key' = FxZero

(***************************************************************************)
(* One iteration of min(sample, key=question_entropy): the next element of *)
(* the shuffled sample is any element shuffle has not placed before it;    *)
(* its key is computed (updating the cell) and it becomes the best when    *)
(* it is the first or its key is strictly smaller.  After the last         *)
(* element min() returns and get_question stores and returns the result.   *)
(***************************************************************************)
MinTakes(key, best_item, best_key) == best_item = None \/ FxLt(key, best_key)

min_step(g) ==
    /\ pc = "min"
    /\ self = g
    /\ \E question \in unsampled :
       \E r \in {question_entropy(question, current_allowed_numbers[g],
                                   current_min_entropy)} :
         LET takes == MinTakes(r[1], min_item, min_key)
             item == IF takes THEN question ELSE min_item
             key == IF takes THEN r[1] ELSE min_key
         IN  IF to_draw > 1
             THEN /\ unsampled' = unsampled \ {question}
                  /\ to_draw' = to_draw - 1
                  /\ current_min_entropy' = r[2]
                  /\ min_item' = item
                  /\ min_key' = key
                  /\ UNCHANGED <<gameVars, pc, self, callVars>>
             ELSE /\ last_question' = Put(last_question, g, item)
                  /\ returned' = [returned EXCEPT ![g] = @ + 1]
                  /\ error' = "ok"
                  /\ pc' = "idle"
                  /\ self' = NoGame
                  /\ unsampled' = {}
                  /\ to_draw' = 0
                  /\ current_min_entropy' = InitialCell
                  /\ min_item' = None
                  /\ min_key' = FxZero
                  /\ UNCHANGED <<history, i, current_allowed_numbers, call>>

(***************************************************************************)
(* Game.put_answer(answer).                                                *)
(***************************************************************************)
\* put_answer asserting len(answer) >= 2.
PutAnswerAcceptsTwoOrMore(answer) == Len(answer) >= 2

\* assert len(answer) == 2
PutAnswerAccepts(answer) == Len(answer) = 2

\* put_answer with self.history.insert(0, ...) for append.
PutAnswerInsertsFirst(g, answer) ==
    /\ pc = "idle"
    /\ g \in Games
    /\ call' = <<"put_answer", g, answer>>
    /\ UNCHANGED <<i, current_allowed_numbers, last_question, passVars, returned>>
    /\ IF ~PutAnswerAccepts(answer)
       THEN /\ error' = "AssertionError"
            /\ UNCHANGED history
       ELSE IF g \notin DOMAIN last_question
       THEN /\ error' = "AttributeError"
            /\ UNCHANGED history
       ELSE /\ error' = "ok"
            /\ history' = [history EXCEPT
                              ![g] = <<<<last_question[g], answer>>>> \o @]

put_answer(g, answer) ==
    /\ pc = "idle"
    /\ g \in Games
    /\ call' = <<"put_answer", g, answer>>
    /\ UNCHANGED <<i, current_allowed_numbers, last_question, passVars, returned>>
    /\ IF ~PutAnswerAccepts(answer)
       THEN /\ error' = "AssertionError"
            /\ UNCHANGED history
       ELSE IF g \notin DOMAIN last_question
       THEN /\ error' = "AttributeError"
            /\ UNCHANGED history
       ELSE /\ error' = "ok"
            /\ history' = [history EXCEPT
                              ![g] = Append(@, <<last_question[g], answer>>)]

(***************************************************************************)
(* The specification of one Game driven through its methods in any order   *)
(* with any answers.                                                       *)
(***************************************************************************)
\* Well-shaped answers outside the scorer's range, and tuples of 0, 1 and 3
\* elements.
OtherAnswers ==
    {<<0 - 1, 0>>, <<0, 0 - 1>>, <<3, 3>>, <<>>, <<0>>, <<0, 0, 0>>}

\* Answers a caller may pass.
AnswerInputs == Range(POTENTIAL_ANSWERS) \cup OtherAnswers

\* The ids under which the explored Game objects are constructed.
GameIds == {1}

\* A map with no entry: no Game has been constructed.
NoEntries == [g \in {} |-> 0]

TestOff ==
    /\ tpc = "off"
    /\ for_iter = 0
    /\ number = 0
    /\ worst_number_of_steps = 0

InterOff == ipc = "off"

PureOff ==
    /\ args = <<>>
    /\ ret = <<>>
    /\ ppc = "off"

NoGames ==
    /\ history = NoEntries
    /\ i = NoEntries
    /\ current_allowed_numbers = NoEntries
    /\ last_question = NoEntries
    /\ returned = NoEntries
    /\ call = <<>>
    /\ error = "ok"
    /\ PassIdle

\* The state after game = Game().
Init ==
    /\ history = [g \in GameIds |-> <<>>]
    /\ i = [g \in GameIds |-> 0]
    /\ current_allowed_numbers = [g \in GameIds |-> UniverseSet]
    /\ last_question = NoEntries
    /\ returned = [g \in GameIds |-> 0]
    /\ call = <<"Game", 1>>
    /\ error = "ok"
    /\ PassIdle
    /\ TestOff
    /\ InterOff
    /\ PureOff

NewGame ==
    \E g \in GameIds :
        /\ pc = "idle"
        /\ Game__init__(g)
        /\ UNCHANGED <<testVars, pureVars, interVars>>

GetQuestion ==
    \E g \in Games :
        /\ i[g] < MaxStep
        /\ get_question(g)
        /\ UNCHANGED <<testVars, pureVars, interVars>>

MinStep ==
    \E g \in Games :
        /\ min_step(g)
        /\ UNCHANGED <<testVars, pureVars, interVars>>

PutAnswer ==
    \E g \in Games, answer \in AnswerInputs :
        /\ Len(history[g]) < MaxHistory
        /\ put_answer(g, answer)
        /\ UNCHANGED <<testVars, pureVars, interVars>>

Next == NewGame \/ GetQuestion \/ MinStep \/ PutAnswer

Spec == Init /\ [][Next]_vars

(***************************************************************************)
(* test_all_numbers: for each number of the list a new Game is played with *)
(* the answers count_bulls_and_cows(number, question) until is_finished(), *)
(* then is_correct() is asserted.  An exception ends the run ("crashed").   *)
(***************************************************************************)
\* The Game object the variable game of test_all_numbers refers to.
game == 1

\* for number in ALL_NUMBERS: ... game = Game()
test_for ==
    /\ tpc = "for"
    /\ UNCHANGED <<pureVars, interVars>>
    /\ IF for_iter = Len(Universe)
       THEN /\ tpc' = "done"
            /\ UNCHANGED <<gameVars, passVars, callVars, for_iter, number,
                           worst_number_of_steps>>
       ELSE /\ for_iter' = for_iter + 1
            /\ number' = Universe[for_iter + 1]
            /\ Game__init__(game)
            /\ tpc' = "while"
            /\ UNCHANGED worst_number_of_steps

\* while not game.is_finished(): question = game.get_question()
test_while ==
    /\ tpc = "while"
    /\ UNCHANGED <<for_iter, number, worst_number_of_steps, pureVars, interVars>>
    /\ IF is_finished(game)
       THEN /\ tpc' = "assert"
            /\ UNCHANGED <<gameVars, passVars, callVars>>
       ELSE /\ get_question(game)
            /\ tpc' = IF error' = "running" THEN "question" ELSE "crashed"

\* ... get_question running min() over the sample, until it returns
test_min ==
    /\ tpc = "question"
    /\ min_step(game)
    /\ tpc' = IF pc' = "idle" THEN "answer" ELSE "question"
    /\ UNCHANGED <<for_iter, number, worst_number_of_steps, pureVars, interVars>>

\* answer = count_bulls_and_cows(number, question); game.put_answer(answer)
test_answer ==
    /\ tpc = "answer"
    /\ put_answer(game, count_bulls_and_cows(number, last_question[game]))
    /\ tpc' = IF error' = "ok" THEN "while" ELSE "crashed"
    /\ UNCHANGED <<for_iter, number, worst_number_of_steps, pureVars, interVars>>

\* assert game.is_correct(); the update of worst_number_of_steps
test_assert ==
    /\ tpc = "assert"
    /\ UNCHANGED <<gameVars, passVars, callVars, for_iter, number, pureVars,
                   interVars>>
    /\ IF is_correct(game)
       THEN /\ worst_number_of_steps' =
                   IF get_step(game) > worst_number_of_steps
                   THEN get_step(game)
                   ELSE worst_number_of_steps
            /\ tpc' = "for"
       ELSE /\ tpc' = "crashed"
            /\ UNCHANGED worst_number_of_steps

TestInit ==
    /\ NoGames
    /\ tpc = "for"
    /\ for_iter = 0
    /\ number = 0
    /\ worst_number_of_steps = 0
    /\ PureOff
    /\ InterOff

TestNext == test_for \/ test_while \/ test_min \/ test_answer \/ test_assert

\* The interpreter runs the sequential program to its end: a step that can
\* be taken is taken.
TestSpec == TestInit /\ [][TestNext]_vars /\ WF_vars(TestNext)

(***************************************************************************)
(* count_bulls_and_cows applied to one pair of arguments: any number of     *)
(* ALL_NUMBERS against a question of Universe or of the banner's example.  *)
(***************************************************************************)
\* set(ALL_NUMBERS)
AllNumbersSet == Range(ALL_NUMBERS)

ScoreQuestions == UniverseSet \cup {EXAMPLE_NUMBER, EXAMPLE_QUESTION}

ScoreInit ==
    /\ NoGames
    /\ TestOff
    /\ InterOff
    /\ ppc = "call"
    /\ args \in AllNumbersSet \X ScoreQuestions
    /\ ret = <<>>

Score ==
    /\ ppc = "call"
    /\ ret' = count_bulls_and_cows(args[1], args[2])
    /\ ppc' = "return"
    /\ UNCHANGED <<gameVars, passVars, callVars, testVars, args, interVars>>

ScoreNext == Score

ScoreSpec == ScoreInit /\ [][ScoreNext]_vars

(***************************************************************************)
(* Membership in ALL_NUMBERS of one sequence of NUM_DIGITS decimal digits: *)
(* the sequence is a member when it is str(number) of a number of the list.*)
(***************************************************************************)
DigitSequences == [1..NUM_DIGITS -> 0..9]

\* The int written with the given digits: the only number whose str() can
\* be that sequence.
RECURSIVE int(_)
int(digits) ==
    IF Len(digits) = 0 THEN 0
    ELSE 10 * int(SubSeq(digits, 1, Len(digits) - 1)) + digits[Len(digits)]

\* any(str(number) == digits for number in ALL_NUMBERS)
InAllNumbers(digits) ==
    \E n \in {int(digits)} \cap AllNumbersSet : str(n) = digits

MemberInit ==
    /\ NoGames
    /\ TestOff
    /\ InterOff
    /\ ppc = "call"
    /\ args \in DigitSequences
    /\ ret = <<>>

Member ==
    /\ ppc = "call"
    /\ ret' = InAllNumbers(args)
    /\ ppc' = "return"
    /\ UNCHANGED <<gameVars, passVars, callVars, testVars, args, interVars>>

MemberNext == Member

UniverseSpec == MemberInit /\ [][MemberNext]_vars

(***************************************************************************)
(* interactive_game: one Game asked questions until is_finished(), each    *)
(* answer being the tuple of the numbers found in the line read.  A line   *)
(* without exactly two numbers makes the driver raise ValueError.          *)
(***************************************************************************)
\* tuple(int(i) for i in re.findall(r'[0-9]+', input())): any tuple of
\* non-negative ints.
InteractiveAnswers ==
    {answer \in AnswerInputs : \A k \in 1..Len(answer) : answer[k] >= 0}

\* while not game.is_finished(): question = game.get_question()
inter_while ==
    /\ ipc = "while"
    /\ UNCHANGED <<testVars, pureVars>>
    /\ IF is_finished(game)
       THEN /\ ipc' = "report"
            /\ UNCHANGED <<gameVars, passVars, callVars>>
       ELSE /\ get_question(game)
            /\ ipc' = IF error' = "running" THEN "question" ELSE "crashed"

\* ... get_question running min() over the sample, until it returns
inter_min ==
    /\ ipc = "question"
    /\ min_step(game)
    /\ ipc' = IF pc' = "idle" THEN "input" ELSE "question"
    /\ UNCHANGED <<testVars, pureVars>>

\* answer = tuple(...); if len(answer) != 2: raise ValueError(...);
\* game.put_answer(answer)
inter_input ==
    /\ ipc = "input"
    /\ UNCHANGED <<testVars, pureVars>>
    /\ \E answer \in InteractiveAnswers :
         IF Len(answer) # 2
         THEN /\ ipc' = "raised"
              /\ UNCHANGED <<gameVars, passVars, callVars>>
         ELSE /\ put_answer(game, answer)
              /\ ipc' = IF error' = "ok" THEN "while" ELSE "crashed"

\* if game.is_correct(): print(... guessed_number(), get_step()) else: print
inter_report ==
    /\ ipc = "report"
    /\ ipc' = "done"
    /\ UNCHANGED <<gameVars, passVars, callVars, testVars, pureVars>>

\* The state after game = Game().
InterInit ==
    /\ history = [g \in GameIds |-> <<>>]
    /\ i = [g \in GameIds |-> 0]
    /\ current_allowed_numbers = [g \in GameIds |-> UniverseSet]
    /\ last_question = NoEntries
    /\ returned = [g \in GameIds |-> 0]
    /\ call = <<"Game", game>>
    /\ error = "ok"
    /\ PassIdle
    /\ TestOff
    /\ PureOff
    /\ ipc = "while"

InterNext == inter_while \/ inter_min \/ inter_input \/ inter_report

\* The loop goes on whenever it can: the interpreter runs the program and
\* the player answers every question.
InterSpec == InterInit /\ [][InterNext]_vars /\ WF_vars(InterNext)

(***************************************************************************)
(* Two Game objects constructed and driven through their methods in any    *)
(* order, one call at a time.                                              *)
(***************************************************************************)
TwoGameIds == {1, 2}

\* Answers passed to the two games.
TwoGamesAnswers == {<<1, 0>>, <<2, 0>>}

TwoGamesInit ==
    /\ NoGames
    /\ TestOff
    /\ PureOff
    /\ InterOff

TwoNewGame ==
    \E g \in TwoGameIds :
        /\ pc = "idle"
        /\ Game__init__(g)
        /\ UNCHANGED <<testVars, pureVars, interVars>>

TwoGetQuestion ==
    \E g \in Games :
        /\ i[g] < MaxStep - 1
        /\ get_question(g)
        /\ UNCHANGED <<testVars, pureVars, interVars>>

TwoMinStep ==
    \E g \in Games :
        /\ min_step(g)
        /\ UNCHANGED <<testVars, pureVars, interVars>>

TwoPutAnswer ==
    \E g \in Games, answer \in TwoGamesAnswers :
        /\ Len(history[g]) < MaxHistory - 1
        /\ put_answer(g, answer)
        /\ UNCHANGED <<testVars, pureVars, interVars>>

TwoGamesNext == TwoNewGame \/ TwoGetQuestion \/ TwoMinStep \/ TwoPutAnswer

TwoGamesSpec == TwoGamesInit /\ [][TwoGamesNext]_vars

(***************************************************************************)
(* Properties.                                                             *)
(***************************************************************************)
\* The numbers of the universe consistent with every entry of g's history,
\* stated directly.
ConsistentNumbers(g) ==
    {n \in UniverseSet :
        \A k \in 1..Len(history[g]) :
            count_bulls_and_cows(n, history[g][k][1]) = history[g][k][2]}

\* The most recent entry of g's history.
LastEntry(g) == history[g][Len(history[g])]

\* C1: in test_all_numbers, for every secret number and every sample drawn,
\* whenever is_finished() is true of the game, is_correct() is true and
\* guessed_number() is the secret number.
C1_FinishedGameGuessesSecret ==
    (tpc # "off" /\ pc = "idle" /\ game \in Games /\ is_finished(game))
        => (is_correct(game) /\ guessed_number(game) = number)

\* A game of test_all_numbers finished after two rounds, with the secret
\* guessed.
C1_Witness ==
    /\ tpc = "assert"
    /\ is_finished(game)
    /\ Len(history[game]) >= 2
    /\ is_correct(game)
    /\ guessed_number(game) = number

\* C2: the truthful game loop terminates for every secret and every sample
\* drawn: no game takes more rounds than the universe has numbers, and
\* test_all_numbers reaches its end.
C2_TruthfulLoopTerminates ==
    /\ [](game \in Games => i[game] <= Len(Universe))
    /\ <>(tpc = "done")

\* test_all_numbers has ended after playing every number, one of the games
\* having taken more than one round.
C2_Witness ==
    /\ tpc = "done"
    /\ for_iter = Len(Universe)
    /\ worst_number_of_steps >= 2

\* An answer with a negative component or with bulls + cows > NUM_DIGITS.
Malformed(answer) ==
    /\ Len(answer) = 2
    /\ \/ answer[1] < 0
       \/ answer[2] < 0
       \/ answer[1] + answer[2] > NUM_DIGITS

\* C3 as stated: put_answer fails for every malformed pair, a failed call
\* leaves the game unchanged, and only well-formed pairs are appended.
C3_MalformedPairFails ==
    [][\A g \in Games, answer \in AnswerInputs :
          put_answer(g, answer) =>
              /\ Malformed(answer) => error' # "ok"
              /\ error' # "ok" => UNCHANGED gameVars
              /\ history'[g] # history[g] => ~Malformed(answer)]_vars

\* C3 amended: put_answer fails exactly when the answer does not have two
\* elements or no question has been returned yet; a failed call leaves the
\* game unchanged; every two-element answer, malformed or not, is appended
\* to history with the last question.
C3_TwoElementAnswerAppended ==
    [][\A g \in Games, answer \in AnswerInputs :
          put_answer(g, answer) =>
              /\ error' # "ok" <=>
                     (Len(answer) # 2 \/ g \notin DOMAIN last_question)
              /\ error' # "ok" => UNCHANGED gameVars
              /\ error' = "ok" =>
                     /\ history' = [history EXCEPT
                            ![g] = Append(@, <<last_question[g], answer>>)]
                     /\ UNCHANGED <<i, current_allowed_numbers, last_question>>]_vars

\* put_answer has returned normally from a malformed pair, which is the
\* newest entry of history.
C3_Witness ==
    /\ call # <<>>
    /\ call[1] = "put_answer"
    /\ error = "ok"
    /\ Malformed(call[3])
    /\ LastEntry(call[2])[2] = call[3]

\* C4: get_question called while is_finished() is true fails with the
\* assertion and changes nothing of the game.
C4_FinishedGetQuestionFails ==
    [][\A g \in Games :
          (get_question(g) /\ is_finished(g)) =>
              /\ error' = "AssertionError"
              /\ UNCHANGED <<gameVars, passVars>>]_vars

\* get_question has failed with the assertion on a finished game.
C4_Witness ==
    /\ call # <<>>
    /\ call[1] = "get_question"
    /\ error = "AssertionError"
    /\ is_finished(call[2])
    /\ i[call[2]] >= 1

\* C5: with a contradictory history (no number of the universe consistent
\* with every entry), the put_answer that made it so has recorded its
\* entry without an error, is_finished() is true, is_correct() is false and
\* guessed_number() is None.
C5_ContradictoryHistory ==
    \A g \in Games :
        (pc = "idle" /\ ConsistentNumbers(g) = {}) =>
            /\ is_finished(g)
            /\ ~is_correct(g)
            /\ guessed_number(g) = None
            /\ (call[1] = "put_answer" /\ call[2] = g /\ Len(call[3]) = 2) =>
                   /\ error = "ok"
                   /\ LastEntry(g) = <<last_question[g], call[3]>>

\* put_answer has just recorded an entry that leaves no consistent number.
C5_Witness ==
    /\ call # <<>>
    /\ call[1] = "put_answer"
    /\ error = "ok"
    /\ ConsistentNumbers(call[2]) = {}
    /\ ~is_correct(call[2])

\* C6: whenever is_finished() is true, is_correct() is true iff exactly one
\* number of the universe is consistent with every history entry, and then
\* guessed_number() is that number; otherwise guessed_number() is None.
C6_CorrectIffUniqueCandidate ==
    \A g \in Games :
        (pc = "idle" /\ is_finished(g)) =>
            /\ is_correct(g) <=> Cardinality(ConsistentNumbers(g)) = 1
            /\ IF Cardinality(ConsistentNumbers(g)) = 1
               THEN ConsistentNumbers(g) = {guessed_number(g)}
               ELSE guessed_number(g) = None

\* A finished game whose only consistent number is the first of the list.
C6_Witness ==
    \E g \in Games :
        /\ pc = "idle"
        /\ history[g] # <<>>
        /\ is_finished(g)
        /\ ConsistentNumbers(g) = {Universe[1]}
        /\ guessed_number(g) = Universe[1]

\* C7: between calls, get_step() is the number of get_question calls that
\* succeeded while the game is not finished or the last answer has
\* bulls = NUM_DIGITS, and that number plus one in a game finished on
\* another answer.
C7_StepCountsSuccessfulQuestions ==
    \A g \in Games :
        pc = "idle" =>
            get_step(g) =
                IF is_finished(g) /\ LastEntry(g)[2][1] # NUM_DIGITS
                THEN returned[g] + 1
                ELSE returned[g]

\* The digit at position p (1 the most significant) of a NUM_DIGITS-digit
\* number.
Digit(n, p) == (n \div Pow(10, NUM_DIGITS - p)) % 10

\* Positions where a and b have the same digit.
ReferenceBulls(a, b) ==
    Cardinality({p \in 1..NUM_DIGITS : Digit(a, p) = Digit(b, p)})

\* Digits that occur in a and in b at different positions.
ReferenceCows(a, b) ==
    Cardinality({d \in 0..9 :
        \E p, q \in 1..NUM_DIGITS :
            p # q /\ Digit(a, p) = d /\ Digit(b, q) = d})

\* C9: count_bulls_and_cows(a, b) is (positions where a and b agree, digits
\* in both at different positions); 1234 against 1453 scores (1, 2).
C9_ScoreIsReference ==
    ppc = "return" =>
        /\ ret = <<ReferenceBulls(args[1], args[2]),
                   ReferenceCows(args[1], args[2])>>
        /\ args = <<EXAMPLE_NUMBER, EXAMPLE_QUESTION>> => ret = <<1, 2>>

\* The banner's example has been scored.
C9_Witness ==
    /\ ppc = "return"
    /\ args = <<EXAMPLE_NUMBER, EXAMPLE_QUESTION>>
    /\ ret = <<1, 2>>

\* C10: the score has bulls + cows <= NUM_DIGITS, bulls = NUM_DIGITS iff
\* the two numbers are equal, and a number scores (NUM_DIGITS, 0) against
\* itself.
C10_ScoreBounds ==
    ppc = "return" =>
        /\ ret[1] + ret[2] <= NUM_DIGITS
        /\ ret[1] = NUM_DIGITS <=> args[1] = args[2]
        /\ args[1] = args[2] => ret = <<NUM_DIGITS, 0>>

\* A number has been scored against itself.
C10_Witness ==
    /\ ppc = "return"
    /\ args[1] = args[2]
    /\ ret = <<NUM_DIGITS, 0>>

\* The digits of a sequence are pairwise distinct.
DistinctDigits(digits) == Cardinality(Range(digits)) = Len(digits)

\* C8 as stated: a sequence of NUM_DIGITS digits is in ALL_NUMBERS iff its
\* digits are pairwise distinct, a leading zero permitted.
C8_LeadingZeroPermitted ==
    ppc = "return" => (ret <=> DistinctDigits(args))

\* C8 amended: a sequence of NUM_DIGITS digits is in ALL_NUMBERS iff its
\* digits are pairwise distinct and the first is not 0.
C8_NoLeadingZero ==
    ppc = "return" => (ret <=> (DistinctDigits(args) /\ args[1] # 0))

\* A sequence of distinct digits that starts with 0 has been found not to
\* be in ALL_NUMBERS.
C8_Witness ==
    /\ ppc = "return"
    /\ DistinctDigits(args)
    /\ args[1] = 0
    /\ ret = FALSE

\* Pools the count is compared over: the universe, g's pool and the first
\* half of the list.
CountPools(g) ==
    {UniverseSet, current_allowed_numbers[g],
     Range(SubSeq(Universe, 1, Len(Universe) \div 2))}

\* C11: over every pool, count_possible_numbers of a Game's history never
\* increases from one operation on the Game to the next (put_answer takes
\* the history H to H + [e]), and once is_finished() is true it stays true.
C11_CountNeverIncreases ==
    [][\A g \in Games :
          (~Game__init__(g) /\ history'[g] # history[g]) =>
              /\ \A P \in CountPools(g) :
                     count_possible_numbers(history'[g], P)
                         <= count_possible_numbers(history[g], P)
              /\ is_finished(g) => is_finished(g)']_vars

\* put_answer has added a second entry, which has left fewer consistent
\* numbers than the first alone.
C11_Witness ==
    /\ call[1] = "put_answer"
    /\ error = "ok"
    /\ Len(history[call[2]]) = 2
    /\ count_possible_numbers(history[call[2]], UniverseSet)
           < count_possible_numbers(SubSeq(history[call[2]], 1, 1), UniverseSet)

\* C12: history is append-only: an operation on a Game leaves the entries
\* its history had, in their order; only put_answer changes history, by
\* appending the one entry (last question, answer); get_question and the
\* selection of the question leave it unchanged.
C12_HistoryAppendOnly ==
    [][\A g \in Games :
          ~Game__init__(g) =>
              /\ Len(history'[g]) >= Len(history[g])
              /\ SubSeq(history'[g], 1, Len(history[g])) = history[g]
              /\ history'[g] # history[g] =>
                     /\ call'[1] = "put_answer"
                     /\ history'[g] =
                            Append(history[g], <<last_question[g], call'[3]>>)
              /\ (get_question(g) \/ min_step(g)) => history' = history]_vars

\* put_answer has appended a second entry that differs from the first.
C12_Witness ==
    /\ call[1] = "put_answer"
    /\ error = "ok"
    /\ Len(history[call[2]]) = 2
    /\ history[call[2]][2] = <<last_question[call[2]], call[3]>>
    /\ history[call[2]][1] # history[call[2]][2]

\* The fields of the Game h are the same after the step.
GameUnchanged(h) ==
    /\ h \in Games'
    /\ history'[h] = history[h]
    /\ i'[h] = i[h]
    /\ current_allowed_numbers'[h] = current_allowed_numbers[h]
    /\ (h \in DOMAIN last_question) = (h \in DOMAIN last_question')
    /\ h \in DOMAIN last_question => last_question'[h] = last_question[h]

\* C13: a newly created Game has an empty history, i = 0 and a pool equal
\* to the universe, whatever was done before on other Games; and a call on
\* one Game changes no field of any other Game.
C13_GamesIndependent ==
    [][/\ \A g \in Games' :
             Game__init__(g) =>
                 /\ history'[g] = <<>>
                 /\ i'[g] = 0
                 /\ current_allowed_numbers'[g] = UniverseSet
                 /\ g \notin DOMAIN last_question'
       /\ \A h \in Games : h # call'[2] => GameUnchanged(h)]_vars

\* A second Game has just been created with the full pool while the first
\* has been asked two questions and its pool has been pruned.
C13_Witness ==
    /\ call = <<"Game", 2>>
    /\ 1 \in Games
    /\ i[1] = 2
    /\ current_allowed_numbers[1] # UniverseSet
    /\ current_allowed_numbers[2] = UniverseSet
    /\ history[2] = <<>>

\* C14: in the loop of interactive_game, where get_question and put_answer
\* alternate, the pool after every get_question is exactly the set of
\* universe numbers consistent with the whole history, and no step ever
\* adds a number to the pool.
C14_PoolIsConsistentSet ==
    /\ [](ipc \in {"question", "input"} =>
              current_allowed_numbers[game] = ConsistentNumbers(game))
    /\ [][current_allowed_numbers'[game] \subseteq
              current_allowed_numbers[game]]_vars

\* get_question has returned in the third round; the pool is the set
\* consistent with both entries, which the newest entry alone would not give.
C14_Witness ==
    /\ ipc = "input"
    /\ Len(history[game]) = 2
    /\ current_allowed_numbers[game] = ConsistentNumbers(game)
    /\ current_allowed_numbers[game] #
           {n \in UniverseSet :
               ConsistentWithHistory(n, <<LastEntry(game)>>)}

\* The entropy sum of a question over the answers, every term included.
RECURSIVE FullEntropy(_, _, _)
FullEntropy(question, pool, answers) ==
    IF answers = {} THEN 0
    ELSE LET answer == CHOOSE a \in answers : TRUE
             count == Cardinality({n \in pool :
                          count_bulls_and_cows(n, question) = answer})
         IN  (IF count > 0 THEN XLogX(count) ELSE 0)
                 + FullEntropy(question, pool, answers \ {answer})

\* What a ranking by the full sums keeps as its best after looking at
\* question, when best was the best before (None: nothing looked at yet).
RankedBest(question, best, pool) ==
    IF \/ best = None
       \/ FullEntropy(question, pool, Range(POTENTIAL_ANSWERS))
              < FullEntropy(best, pool, Range(POTENTIAL_ANSWERS))
    THEN question
    ELSE best

\* C15: at every element min() takes from the sample, the best kept by
\* get_best_question (with the early exit on the shared threshold) is the
\* best a ranking by full entropy sums keeps: the element when it is the
\* first or its full sum is strictly smaller, the previous best otherwise;
\* and the probe returned is the best after the last element.
C15_EarlyExitKeepsRanking ==
    [][\A g \in Games :
          (pc = "min" /\ self = g /\ unsampled' # unsampled) =>
              LET pool == current_allowed_numbers[g]
              IN  IF pc' = "min"
                  THEN \E question \in unsampled \ unsampled' :
                           /\ unsampled' = unsampled \ {question}
                           /\ min_item' = RankedBest(question, min_item, pool)
                  ELSE \E question \in unsampled :
                           last_question'[g] =
                               RankedBest(question, min_item, pool)]_vars

\* A pass in which some element already looked at is not the best, and its
\* evaluation against the present threshold leaves the loop before the sum
\* is complete.
C15_Witness ==
    /\ pc = "min"
    /\ min_item # None
    /\ \E question \in current_allowed_numbers[self] \ unsampled :
           LET pool == current_allowed_numbers[self]
               full == FullEntropy(question, pool, Range(POTENTIAL_ANSWERS))
               early == question_entropy(question, pool, current_min_entropy)[1]
           IN  /\ question # min_item
               /\ full > FullEntropy(min_item, pool, Range(POTENTIAL_ANSWERS))
               /\ early[1] * FX_SCALE + early[2] < full

\* C16: the threshold current_min_entropy belongs to one ranking pass.
\* Every pass starts with the initial value 10 ** 9, whatever earlier
\* passes of this or another Game left; from one evaluation to the next
\* within a pass the value never increases and is the one the evaluation
\* of this pass's own pool gives; no step outside a pass (put_answer,
\* Game(), a failing get_question, on any Game) touches it, and while a
\* pass runs every step is a step of this pass, on this pass's Game.
C16_ThresholdScopedToPass ==
    [][/\ (pc = "idle" /\ pc' = "min") =>
              current_min_entropy' = InitialCell
       /\ (pc = "min" /\ pc' = "min") =>
              /\ self' = self
              /\ ~FxGt(current_min_entropy', current_min_entropy)
              /\ \E question \in unsampled \ unsampled' :
                     current_min_entropy' =
                         question_entropy(question,
                                          current_allowed_numbers[self],
                                          current_min_entropy)[2]
       /\ (pc = "idle" /\ pc' = "idle") =>
              current_min_entropy' = current_min_entropy
       /\ pc = "min" => (call'[2] = self /\ self' \in {self, NoGame})]_vars

\* The second Game is in a pass whose threshold is below its initial value,
\* after the first Game has completed two passes.
C16_Witness ==
    /\ pc = "min"
    /\ self = 2
    /\ 1 \in Games
    /\ returned[1] = 2
    /\ FxLt(current_min_entropy, InitialCell)

\* C17: every score count_bulls_and_cows returns for numbers of ALL_NUMBERS
\* is an entry of POTENTIAL_ANSWERS and is never (NUM_DIGITS - 1, 1); and
\* the list has 14 different entries, each of them the score of some
\* number of ALL_NUMBERS against the banner's number.
C17_PotentialAnswersAreTheScores ==
    ppc = "return" =>
        /\ ret \in Range(POTENTIAL_ANSWERS)
        /\ ret # <<NUM_DIGITS - 1, 1>>
        /\ args = <<EXAMPLE_NUMBER, EXAMPLE_NUMBER>> =>
               /\ Len(POTENTIAL_ANSWERS) = 14
               /\ Cardinality(Range(POTENTIAL_ANSWERS)) = 14
               /\ \A k \in 1..Len(POTENTIAL_ANSWERS) :
                      \E n \in AllNumbersSet :
                          count_bulls_and_cows(n, EXAMPLE_NUMBER)
                              = POTENTIAL_ANSWERS[k]

\* A number that has the banner number's digits, all at other places, has
\* been scored against it.
C17_Witness ==
    /\ ppc = "return"
    /\ args[2] = EXAMPLE_NUMBER
    /\ ret = <<0, NUM_DIGITS>>

\* The questions of g's history.
AskedQuestions(g) == {history[g][k][1] : k \in 1..Len(history[g])}

\* C18: in the loop of interactive_game every probe get_question returns is
\* a number of the universe consistent with every entry the history holds
\* at the call, so it is none of the probes asked before, and the probes of
\* the history are pairwise different.
C18_ProbeIsConsistentAndNew ==
    /\ ipc = "input" =>
           /\ last_question[game] \in UniverseSet
           /\ last_question[game] \in ConsistentNumbers(game)
           /\ last_question[game] \notin AskedQuestions(game)
    /\ ipc # "off" =>
           Cardinality(AskedQuestions(game)) = Len(history[game])

\* The probe of the third round has been returned: it is consistent with
\* the two entries and differs from both probes.
C18_Witness ==
    /\ ipc = "input"
    /\ Len(history[game]) = 2
    /\ last_question[game] \in ConsistentNumbers(game)
    /\ Cardinality(AskedQuestions(game) \cup {last_question[game]}) = 3

\* C19: in the loop of interactive_game every answer put, whatever its
\* value, leaves strictly fewer universe numbers consistent with the
\* history than before; so the history never grows beyond
\* Len(Universe) - 1 entries, a game with that many is finished, and every
\* run of the loop comes to a finished game unless an input without two
\* numbers ends it.
C19_EveryRoundShrinksCandidates ==
    /\ [][history'[game] # history[game] =>
              Cardinality(ConsistentNumbers(game)')
                  < Cardinality(ConsistentNumbers(game))]_vars
    /\ [](Len(history[game]) <= Len(Universe) - 1)
    /\ [](Len(history[game]) = Len(Universe) - 1 => is_finished(game))
    /\ <>(is_finished(game) \/ ipc = "raised")

\* A game fed an answer that no number gives: finished after the round,
\* with no candidate left.
C19_Witness ==
    /\ ipc = "while"
    /\ call[1] = "put_answer"
    /\ Len(history[game]) = 2
    /\ is_finished(game)
    /\ ConsistentNumbers(game) = {}

\* C20: in the loop of interactive_game, whatever two numbers are answered,
\* no call fails: get_question never meets its assertion, history[-1] or an
\* empty sample; the pool it ranks holds at least two numbers and the
\* sample at least one; and put_answer finds last_question set.
C20_LoopNeverFails ==
    ipc # "off" =>
        /\ ipc # "crashed"
        /\ error \in {"ok", "running"}
        /\ ipc = "question" =>
               /\ pc = "min" /\ self = game
               /\ Cardinality(current_allowed_numbers[game]) >= 2
               /\ unsampled # {}
               /\ to_draw >= 1
        /\ ipc = "input" =>
               /\ pc = "idle"
               /\ game \in DOMAIN last_question
               /\ last_question[game] \in current_allowed_numbers[game]

\* The third question of a game has been asked without any failure.
C20_Witness ==
    /\ ipc = "input"
    /\ error = "ok"
    /\ i[game] = 3
    /\ returned[game] = 3
    /\ Len(history[game]) = 2

=============================================================================
